---------------------------- MODULE Spec2Model ----------------------------
(***************************************************************************)
(* A model of idp-octelium-sync: the group mapping resolver                *)
(* (src/mapping/loader.ts), the Keycloak provider                          *)
(* (src/providers/keycloak.ts) and the sync orchestrator (src/index.ts).   *)
(***************************************************************************)
EXTENDS Integers, Sequences, FiniteSets, TLC

(***************************************************************************)
(* Bounds of the model.                                                    *)
(***************************************************************************)
\* how many group names the operator's mapping table may configure
MaxKeys == 2

\* how many users the identity provider's realm may hold
MaxUsers == 2

\* how many groups (subgroups included) the realm may hold
MaxGroups == 2

(***************************************************************************)
(* JavaScript values.  An optional field is a set with no element          *)
(* (undefined) or one element (the value).                                 *)
(***************************************************************************)
Undefined == {}

Some(x) == {x}

\* a ?? d
OrElse(opt, d) == IF opt = Undefined THEN d ELSE CHOOSE x \in opt : TRUE

Min(a, b) == IF a < b THEN a ELSE b

Prefix(s, n) == {s[i] : i \in 1..Min(n, Len(s))}

(***************************************************************************)
(* The mapping document (GroupMappingEntry, MappingDefaults, GroupMapping).*)
(***************************************************************************)
\* names an operator configures, in the order the bound admits them
KeyUniverse == <<"admins", "guests", "devs">>

KeyNames == Prefix(KeyUniverse, MaxKeys)

\* properties every plain object inherits from Object.prototype
ObjectPrototypeKeys == {"constructor", "toString"}

\* a name of a provider group that is neither configured nor inherited
UnmappedName == "interns"

GroupNames == KeyNames \cup {"constructor", UnmappedName}

DefaultPolicyLists == {<<"default-policy">>}

\* a value of the groups table: an object with its four optional fields
EntryObject(og, dn, pol, sy) ==
    [kind |-> "object", octeliumGroup |-> og, displayName |-> dn,
     policies |-> pol, sync |-> sy]

\* "key:" with no value parses to null
NullValue == [kind |-> "null", octeliumGroup |-> Undefined,
              displayName |-> Undefined, policies |-> Undefined,
              sync |-> Undefined]

\* what a property read yields when the object has no such property
UndefinedValue == [kind |-> "undefined", octeliumGroup |-> Undefined,
                   displayName |-> Undefined, policies |-> Undefined,
                   sync |-> Undefined]

\* a member of Object.prototype: an object none of whose four fields is set
InheritedValue == EntryObject(Undefined, Undefined, Undefined, Undefined)

TargetNames == {"", "administrators"}

\* the display name and the policy list an entry may carry: none, or both
EntryDetails ==
    {<<Undefined, Undefined>>,
     <<Some("Administrators"), Some(<<"admin-policy">>)>>}

GroupMappingEntry ==
    {EntryObject(og, d[1], d[2], sy) :
        og \in {Undefined} \cup {Some(t) : t \in TargetNames},
        d \in EntryDetails,
        sy \in {Undefined, Some(TRUE), Some(FALSE)}}
    \cup {NullValue}

UnmappedPolicies == {"skip", "include", "include-no-policies", "ignore"}

MappingDefaults ==
    [unmappedGroups : {Undefined} \cup {Some(u) : u \in UnmappedPolicies},
     defaultPolicies : {Undefined} \cup {Some(p) : p \in DefaultPolicyLists}]

GroupsTables(entries) ==
    UNION {[ks -> entries] : ks \in SUBSET KeyNames}

\* a parsed mapping document that has a groups table
GroupMapping(entries, defaults) ==
    [groups : {Some(t) : t \in GroupsTables(entries)},
     defaults : {Undefined} \cup {Some(d) : d \in defaults}]

\* JavaScript truthiness of a value of the groups table
Truthy(v) == v.kind = "object"

\* this.mapping.groups[idpGroupName]
Lookup(table, name) ==
    IF name \in DOMAIN table THEN table[name]
    ELSE IF name \in ObjectPrototypeKeys THEN InheritedValue
    ELSE UndefinedValue

(***************************************************************************)
(* MappingLoader.                                                          *)
(***************************************************************************)
\* mapping.defaults?.field
DefaultsField(mapping, field) ==
    IF mapping.defaults = Undefined THEN Undefined
    ELSE (CHOOSE d \in mapping.defaults : TRUE)[field]

\* new MappingLoader(mapping)
NewMappingLoader(mapping) ==
    [groups |-> CHOOSE t \in mapping.groups : TRUE,
     defaults |->
        [unmappedGroups |->
            OrElse(DefaultsField(mapping, "unmappedGroups"), "skip"),
         defaultPolicies |->
            OrElse(DefaultsField(mapping, "defaultPolicies"), <<>>)]]

Null == [kind |-> "null"]

ResolvedGroupMapping(og, dn, pol, sy) ==
    [kind |-> "resolved", octeliumGroup |-> og, displayName |-> dn,
     policies |-> pol, sync |-> sy]

\* resolveGroup without the "explicitly disabled" test
resolveGroupIgnoringSync(loader, idpGroupName) ==
    LET entry == Lookup(loader.groups, idpGroupName) IN
    IF Truthy(entry)
    THEN ResolvedGroupMapping(OrElse(entry.octeliumGroup, idpGroupName),
                              OrElse(entry.displayName, idpGroupName),
                              OrElse(entry.policies,
                                     loader.defaults.defaultPolicies),
                              OrElse(entry.sync, TRUE))
    ELSE CASE loader.defaults.unmappedGroups = "skip" -> Null
           [] loader.defaults.unmappedGroups = "include" ->
                ResolvedGroupMapping(idpGroupName, idpGroupName,
                                     loader.defaults.defaultPolicies, TRUE)
           [] loader.defaults.unmappedGroups = "include-no-policies" ->
                ResolvedGroupMapping(idpGroupName, idpGroupName, <<>>, TRUE)
           [] OTHER -> Null

\* resolveGroup that includes every group the mapping does not configure
resolveGroupIncludingUnmapped(loader, idpGroupName) ==
    LET entry == Lookup(loader.groups, idpGroupName) IN
    IF Truthy(entry)
    THEN IF entry.sync = Some(FALSE)
         THEN Null
         ELSE ResolvedGroupMapping(OrElse(entry.octeliumGroup, idpGroupName),
                                   OrElse(entry.displayName, idpGroupName),
                                   OrElse(entry.policies,
                                          loader.defaults.defaultPolicies),
                                   OrElse(entry.sync, TRUE))
    ELSE ResolvedGroupMapping(idpGroupName, idpGroupName,
                              loader.defaults.defaultPolicies, TRUE)

\* MappingLoader.resolveGroup
resolveGroup(loader, idpGroupName) ==
    LET entry == Lookup(loader.groups, idpGroupName) IN
    IF Truthy(entry)
    THEN IF entry.sync = Some(FALSE)
         THEN Null
         ELSE ResolvedGroupMapping(OrElse(entry.octeliumGroup, idpGroupName),
                                   OrElse(entry.displayName, idpGroupName),
                                   OrElse(entry.policies,
                                          loader.defaults.defaultPolicies),
                                   OrElse(entry.sync, TRUE))
    ELSE CASE loader.defaults.unmappedGroups = "skip" -> Null
           [] loader.defaults.unmappedGroups = "include" ->
                ResolvedGroupMapping(idpGroupName, idpGroupName,
                                     loader.defaults.defaultPolicies, TRUE)
           [] loader.defaults.unmappedGroups = "include-no-policies" ->
                ResolvedGroupMapping(idpGroupName, idpGroupName, <<>>, TRUE)
           [] OTHER -> Null

(***************************************************************************)
(* The exclude patterns (index.ts, shouldExcludeUser).  Strings that are   *)
(* split, trimmed or matched are sequences of characters.                  *)
(***************************************************************************)
RECURSIVE Split(_, _)
\* s.split(sep)
Split(s, sep) ==
    IF \E i \in 1..Len(s) : s[i] = sep
    THEN LET i == CHOOSE k \in 1..Len(s) :
                    /\ s[k] = sep
                    /\ \A j \in 1..(k - 1) : s[j] # sep
         IN <<SubSeq(s, 1, i - 1)>> \o Split(SubSeq(s, i + 1, Len(s)), sep)
    ELSE <<s>>

RECURSIVE Trim(_)
\* s.trim()
Trim(s) ==
    IF s = <<>> THEN s
    ELSE IF Head(s) = " " THEN Trim(Tail(s))
    ELSE IF s[Len(s)] = " " THEN Trim(SubSeq(s, 1, Len(s) - 1))
    ELSE s

\* options.excludeUsers.split(",").map(trim).filter(nonempty)
ExcludePatterns(excludeUsers) ==
    LET parts == Split(excludeUsers, ",")
        trimmed == [i \in 1..Len(parts) |-> Trim(parts[i])]
    IN SelectSeq(trimmed, LAMBDA q : Len(q) > 0)

RECURSIVE minimatch(_, _)
\* minimatch(name, pattern) for patterns of literals, "?" and "*"
minimatch(name, pattern) ==
    IF pattern = <<>> THEN name = <<>>
    ELSE IF Head(pattern) = "*"
    THEN \/ minimatch(name, Tail(pattern))
         \/ name # <<>> /\ minimatch(Tail(name), pattern)
    ELSE /\ name # <<>>
         /\ Head(pattern) = "?" \/ Head(pattern) = Head(name)
         /\ minimatch(Tail(name), Tail(pattern))

\* shouldExcludeUser
shouldExcludeUser(username, excludePatterns) ==
    \E i \in 1..Len(excludePatterns) : minimatch(username, excludePatterns[i])

\* the filter that keeps disabled users
filterUsersKeepingDisabled(users, excludePatterns) ==
    SelectSeq(users, LAMBDA user :
        ~shouldExcludeUser(user.username, excludePatterns))

\* usersWithGroups.filter(...) in runSync
filterUsers(users, excludePatterns) ==
    SelectSeq(users, LAMBDA user :
        IF ~user.enabled THEN FALSE
        ELSE IF shouldExcludeUser(user.username, excludePatterns) THEN FALSE
        ELSE TRUE)

(***************************************************************************)
(* The manifest renderers (generateGroupsYaml, generateUsersYaml).  A      *)
(* document is the sequence of its entries.                                *)
(***************************************************************************)
RECURSIVE resolveAll(_, _, _)
\* the raw name -> ResolvedGroup map of the groups that are not skipped
resolveAll(groups, loader, map) ==
    IF groups = <<>> THEN map
    ELSE LET name == Head(groups).name
             r == resolveGroup(loader, name)
             next == IF r = Null THEN map
                     ELSE [n \in DOMAIN map \cup {name} |->
                            IF n = name THEN r ELSE map[n]]
         IN resolveAll(Tail(groups), loader, next)

EmptyMap == [n \in {} |-> Null]

GroupEntry(r) ==
    [name |-> r.octeliumGroup, displayName |-> r.displayName,
     policies |-> r.policies]

\* generateGroupsYaml: the document and resolvedGroups
generateGroupsYaml(groups, loader) ==
    LET kept == SelectSeq(groups, LAMBDA g : resolveGroup(loader, g.name) # Null)
    IN [yaml |-> [i \in 1..Len(kept) |->
                    GroupEntry(resolveGroup(loader, kept[i].name))],
        resolvedGroups |-> resolveAll(groups, loader, EmptyMap)]

\* a user's raw group names translated to target names, the unresolved dropped
translateGroups(rawNames, resolvedGroups) ==
    LET known == SelectSeq(rawNames, LAMBDA n : n \in DOMAIN resolvedGroups)
    IN [i \in 1..Len(known) |-> resolvedGroups[known[i]].octeliumGroup]

\* generateUsersYaml
generateUsersYaml(users, resolvedGroups) ==
    [i \in 1..Len(users) |->
        [name |-> users[i].username, type |-> "HUMAN",
         groups |-> translateGroups(users[i].groups, resolvedGroups)]]

(***************************************************************************)
(* The identity provider's realm, as the Keycloak admin client reports it. *)
(***************************************************************************)
\* user representations: id, username and the optional enabled flag
UserUniverse ==
    <<[id |-> "u1", username |-> <<"a", "l">>, enabled |-> Undefined],
      [id |-> "u2", username |-> <<"b", "o", "b">>, enabled |-> Some(FALSE)],
      [id |-> "u3", username |-> <<"s", "v", "c", "-", "b">>,
       enabled |-> Some(TRUE)],
      [id |-> "u4", username |-> <<"s", "v", "c">>, enabled |-> Some(TRUE)]>>

UserCount == Min(MaxUsers, Len(UserUniverse))

UserIds == {UserUniverse[i].id : i \in 1..UserCount}

\* users.find: the first k users of the realm
UserListings == {SubSeq(UserUniverse, 1, k) : k \in 0..UserCount}

GroupIdUniverse == <<"g1", "g2", "g3", "g4">>

GroupCount == Min(MaxGroups, Len(GroupIdUniverse))

GroupIds == {GroupIdUniverse[i] : i \in 1..GroupCount}

RealmGroupNames == {"admins", "guests"}

GroupNode(id, name, subGroups) ==
    [id |-> id, name |-> name, subGroups |-> subGroups]

\* groups.find: k groups, all at the top level or all below the first one
GroupForests ==
    UNION {
        {[i \in 1..k |-> GroupNode(GroupIdUniverse[i], nm[i], <<>>)] :
            nm \in [1..k -> RealmGroupNames]}
        \cup
        {<<GroupNode(GroupIdUniverse[1], nm[1],
                     [i \in 1..(k - 1) |->
                        GroupNode(GroupIdUniverse[i + 1], nm[i + 1], <<>>)])>> :
            nm \in [1..k -> RealmGroupNames]}
        : k \in 1..GroupCount}
    \cup {<<>>}

\* groups.listMembers of one group: nobody, the first user, everybody
MemberLists == {{}, {"u1"}, UserIds}

RECURSIVE ForestIds(_)
ForestIds(forest) ==
    IF forest = <<>> THEN {}
    ELSE {Head(forest).id} \cup ForestIds(Head(forest).subGroups)
            \cup ForestIds(Tail(forest))

Realms ==
    UNION {[users : UserListings, groups : {f},
            members : [ForestIds(f) -> MemberLists]] : f \in GroupForests}

(***************************************************************************)
(* KeycloakProvider.                                                       *)
(***************************************************************************)
\* the User a user representation is mapped to (getUsers, getGroupMembers)
ToUser(u) ==
    [id |-> u.id, username |-> u.username, enabled |-> OrElse(u.enabled, TRUE)]

\* users.map(...) in getUsers and getGroupMembers
ToUsers(us) == [i \in 1..Len(us) |-> ToUser(us[i])]

ToGroup(g) == [id |-> g.id, name |-> g.name]

RECURSIVE flattenGroups(_, _)
\* KeycloakProvider.flattenGroups
flattenGroups(groups, result) ==
    IF groups = <<>> THEN result
    ELSE LET g == Head(groups)
             pushed == Append(result, ToGroup(g))
             below == IF Len(g.subGroups) > 0
                      THEN flattenGroups(g.subGroups, pushed)
                      ELSE pushed
         IN flattenGroups(Tail(groups), below)

\* the members of a group as getGroupMembers returns them, in realm order
MembersOf(realm, groupId) ==
    LET all == ToUsers(UserUniverse) IN
    SelectSeq(all, LAMBDA u : u.id \in realm.members[groupId])

RECURSIVE buildUserGroupsMap(_, _, _, _)
\* the loop over the groups in getUsersWithGroups; failed: the groups whose
\* listMembers request throws
buildUserGroupsMap(map, groups, members, failed) ==
    IF groups = <<>> THEN map
    ELSE LET group == Head(groups)
             next == IF group.id \in failed
                     THEN map
                     ELSE [uid \in DOMAIN map |->
                             IF uid \in members[group.id]
                             THEN Append(map[uid], group.name)
                             ELSE map[uid]]
         IN buildUserGroupsMap(next, Tail(groups), members, failed)

WithGroups(user, groups) ==
    [id |-> user.id, username |-> user.username, enabled |-> user.enabled,
     groups |-> groups]

\* getUsersWithGroups that gives up on the first listMembers failure
usersWithGroupsAborting(users, groups, members, failed) ==
    LET firstBad == IF \E i \in 1..Len(groups) : groups[i].id \in failed
                    THEN CHOOSE i \in 1..Len(groups) :
                            /\ groups[i].id \in failed
                            /\ \A j \in 1..(i - 1) : groups[j].id \notin failed
                    ELSE Len(groups) + 1
        empty == [uid \in {users[i].id : i \in 1..Len(users)} |-> <<>>]
        map == buildUserGroupsMap(empty, SubSeq(groups, 1, firstBad - 1),
                                  members, {})
    IN [i \in 1..Len(users) |-> WithGroups(users[i], map[users[i].id])]

\* what getUsersWithGroups returns once both listings have been fetched
usersWithGroups(users, groups, members, failed) ==
    LET empty == [uid \in {users[i].id : i \in 1..Len(users)} |-> <<>>]
        map == buildUserGroupsMap(empty, groups, members, failed)
    IN [i \in 1..Len(users) |-> WithGroups(users[i], map[users[i].id])]

NotConnected == "Not connected to Keycloak. Call connect() first."

\* what the identity provider answers during one call: whether the user
\* listing and the group listing succeed, and the groups whose member listing
\* fails
Answers(usersOk, groupsOk, failed) ==
    [usersOk |-> usersOk, groupsOk |-> groupsOk, failed |-> failed]

\* the outcome of a provider call: what it returned or threw, and how many
\* requests for users or groups it sent to the identity provider
Returned(op, answers, value, sent) ==
    [op |-> op, answers |-> answers, error |-> Undefined, value |-> value,
     sent |-> sent]

Threw(op, answers, message, sent) ==
    [op |-> op, answers |-> answers, error |-> Some(message), value |-> <<>>,
     sent |-> sent]

\* the answers getUsersWithGroups can meet: a listing that is not reached
\* because an earlier one failed is not drawn; failures: the sets of groups
\* whose member listing may fail
AggregateAnswers(failures) ==
    {Answers(FALSE, TRUE, {}), Answers(TRUE, FALSE, {})}
        \cup {Answers(TRUE, TRUE, failed) : failed \in failures}

\* nothing was asked of the identity provider
NoAnswers == Answers(TRUE, TRUE, {})

NoCall == Returned("none", NoAnswers, <<>>, 0)

\* ensureConnected that never throws
ensureConnectedUnguarded(isConnected) == TRUE

\* KeycloakProvider.ensureConnected: TRUE when it returns, FALSE when it throws
ensureConnected(isConnected) == isConnected

(***************************************************************************)
(* State.                                                                  *)
(***************************************************************************)
VARIABLES
    mapping,   \* the mapping document a MappingLoader was constructed from
    mappingLoader,    \* that MappingLoader
    rName,      \* the argument of the last resolveGroup call, if any
    rResult,    \* what that call returned
    realm,      \* the identity provider's users, groups and memberships
    connected,  \* KeycloakProvider.connected
    authorized, \* history: some connect() has completed successfully
    refused,    \* history: some connect() has failed
    lastCall,   \* the outcome of the last call of a provider method
    pc,             \* the step runSync is about to take
    options,        \* the command line's options
    steps,          \* history: the steps runSync has taken, in order
    failure,        \* the step that threw, if one did
    mappingFile,    \* what the mapping file held when it was read
    groups,         \* runSync's groups
    fetched,        \* runSync's usersWithGroups
    filteredUsers,  \* runSync's filteredUsers
    resolvedGroups, \* runSync's resolvedGroups
    groupsYaml,     \* runSync's groupsYaml
    usersYaml,      \* runSync's usersYaml
    printed,        \* whether the documents went to the console
    files           \* what the run has put at the two output paths

resolverVars == <<mapping, mappingLoader, rName, rResult>>

providerVars == <<realm, connected, authorized, refused, lastCall>>

syncVars == <<pc, options, steps, failure, mappingFile, groups, fetched,
              filteredUsers, resolvedGroups, groupsYaml, usersYaml, printed,
              files>>

vars == <<mapping, mappingLoader, rName, rResult,
          realm, connected, authorized, refused, lastCall,
          pc, options, steps, failure, mappingFile, groups, fetched,
          filteredUsers, resolvedGroups, groupsYaml, usersYaml, printed,
          files>>

ResolverIdle ==
    /\ mapping = Undefined
    /\ mappingLoader = Undefined
    /\ rName = Undefined
    /\ rResult = Null

\* new KeycloakProvider(config)
NewKeycloakProvider ==
    /\ connected = FALSE
    /\ authorized = FALSE
    /\ refused = FALSE
    /\ lastCall = NoCall

\* a sync run has not asked the identity provider anything yet
NoRealm == [users |-> <<>>, groups |-> <<>>, members |-> <<>>]

ProviderIdle ==
    /\ realm = NoRealm
    /\ NewKeycloakProvider

NoFiles == [groups |-> Undefined, users |-> Undefined]

\* runSync's locals before it has assigned them
SyncLocalsUnset ==
    /\ steps = <<>>
    /\ failure = Undefined
    /\ mappingFile = Undefined
    /\ groups = <<>>
    /\ fetched = <<>>
    /\ filteredUsers = <<>>
    /\ resolvedGroups = Undefined
    /\ groupsYaml = Undefined
    /\ usersYaml = Undefined
    /\ printed = FALSE
    /\ files = NoFiles

SyncIdle ==
    /\ pc = "idle"
    /\ options = Undefined
    /\ SyncLocalsUnset

(***************************************************************************)
(* The provider's methods.  Each is the whole call; which requests fail is *)
(* the identity provider's choice.                                         *)
(***************************************************************************)
\* KeycloakProvider.connect
connect(authOk) ==
    /\ connected' = (IF authOk THEN TRUE ELSE connected)
    /\ authorized' = (IF authOk THEN TRUE ELSE authorized)
    /\ refused' = (IF authOk THEN refused ELSE TRUE)
    /\ lastCall' =
        IF authOk
        THEN Returned("connect", NoAnswers, <<>>, 0)
        ELSE Threw("connect", NoAnswers, "Failed to connect to Keycloak", 0)
    /\ UNCHANGED realm

\* KeycloakProvider.getUsers
getUsers(usersOk) ==
    LET answers == Answers(usersOk, TRUE, {}) IN
    /\ lastCall' =
        IF ~ensureConnected(connected)
        THEN Threw("getUsers", NoAnswers, NotConnected, 0)
        ELSE IF ~usersOk THEN Threw("getUsers", answers, "request failed", 1)
        ELSE Returned("getUsers", answers, ToUsers(realm.users), 1)
    /\ UNCHANGED <<realm, connected, authorized, refused>>

\* KeycloakProvider.getGroups
getGroups(groupsOk) ==
    LET answers == Answers(TRUE, groupsOk, {}) IN
    /\ lastCall' =
        IF ~ensureConnected(connected)
        THEN Threw("getGroups", NoAnswers, NotConnected, 0)
        ELSE IF ~groupsOk THEN Threw("getGroups", answers, "request failed", 1)
        ELSE Returned("getGroups", answers,
                      flattenGroups(realm.groups, <<>>), 1)
    /\ UNCHANGED <<realm, connected, authorized, refused>>

\* KeycloakProvider.getGroupMembers
getGroupMembers(groupId, membersOk) ==
    LET found == membersOk /\ groupId \in DOMAIN realm.members
        answers == Answers(TRUE, TRUE, IF found THEN {} ELSE {groupId})
    IN
    /\ lastCall' =
        IF ~ensureConnected(connected)
        THEN Threw("getGroupMembers", NoAnswers, NotConnected, 0)
        ELSE IF ~found
        THEN Threw("getGroupMembers", answers, "request failed", 1)
        ELSE Returned("getGroupMembers", answers, MembersOf(realm, groupId), 1)
    /\ UNCHANGED <<realm, connected, authorized, refused>>

\* KeycloakProvider.getUsersWithGroups
getUsersWithGroups(usersOk, groupsOk, failed) ==
    LET answers == Answers(usersOk, groupsOk, failed) IN
    /\ lastCall' =
        IF ~ensureConnected(connected)
        THEN Threw("getUsersWithGroups", NoAnswers, NotConnected, 0)
        ELSE IF ~usersOk
        THEN Threw("getUsersWithGroups", answers, "request failed", 1)
        ELSE IF ~groupsOk
        THEN Threw("getUsersWithGroups", answers, "request failed", 2)
        ELSE LET allUsers == ToUsers(realm.users)
                 allGroups == flattenGroups(realm.groups, <<>>)
             IN Returned("getUsersWithGroups", answers,
                         usersWithGroups(allUsers, allGroups, realm.members,
                                         failed),
                         2 + Len(allGroups))
    /\ UNCHANGED <<realm, connected, authorized, refused>>

(***************************************************************************)
(* The resolver on its own: a loader over any mapping document, and calls  *)
(* of resolveGroup with any group name.                                    *)
(***************************************************************************)
ResolverInit ==
    /\ mapping \in GroupMapping(GroupMappingEntry, MappingDefaults)
    /\ mappingLoader = NewMappingLoader(mapping)
    /\ rName = Undefined
    /\ rResult = Null
    /\ ProviderIdle
    /\ SyncIdle

ResolveGroupCall ==
    \E g \in GroupNames :
        /\ rName' = Some(g)
        /\ rResult' = resolveGroup(mappingLoader, g)
        /\ UNCHANGED <<mapping, mappingLoader>>
        /\ UNCHANGED <<providerVars, syncVars>>

ResolverNext == ResolveGroupCall

SpecResolver == ResolverInit /\ [][ResolverNext]_vars

(***************************************************************************)
(* The provider on its own: any realm, and any sequence of calls.          *)
(***************************************************************************)
ProviderInit ==
    /\ realm \in Realms
    /\ NewKeycloakProvider
    /\ ResolverIdle
    /\ SyncIdle

Connect ==
    /\ \E authOk \in BOOLEAN : connect(authOk)
    /\ UNCHANGED <<resolverVars, syncVars>>

GetUsers ==
    /\ \E usersOk \in BOOLEAN : getUsers(usersOk)
    /\ UNCHANGED <<resolverVars, syncVars>>

GetGroups ==
    /\ \E groupsOk \in BOOLEAN : getGroups(groupsOk)
    /\ UNCHANGED <<resolverVars, syncVars>>

GetGroupMembers ==
    /\ \E groupId \in GroupIds, membersOk \in BOOLEAN :
            getGroupMembers(groupId, membersOk)
    /\ UNCHANGED <<resolverVars, syncVars>>

GetUsersWithGroups ==
    /\ \E answers \in AggregateAnswers(SUBSET DOMAIN realm.members) :
            getUsersWithGroups(answers.usersOk, answers.groupsOk,
                               answers.failed)
    /\ UNCHANGED <<resolverVars, syncVars>>

ProviderNext ==
    \/ Connect
    \/ GetUsers
    \/ GetGroups
    \/ GetGroupMembers
    \/ GetUsersWithGroups

SpecProvider == ProviderInit /\ [][ProviderNext]_vars

(***************************************************************************)
(* The sync command: runSync, one action per step between two awaits or    *)
(* two phases of the run.                                                  *)
(***************************************************************************)
KeycloakOptions == <<"keycloakUrl", "keycloakRealm", "keycloakClientId",
                     "keycloakClientSecret">>

\* --exclude-users: nothing, or " a?, ,svc-*"
ExcludeStrings ==
    {<<>>, <<" ", "a", "?", ",", " ", ",", "s", "v", "c", "-", "*">>}

\* the options of a run: the provider type, the Keycloak options given (all
\* of them, or all but one), the exclude patterns and the dry-run flag
SyncOptions ==
    [provider : {"keycloak", "okta"},
     given : {Prefix(KeycloakOptions, 4)}
                \cup {Prefix(KeycloakOptions, 4) \ {o} :
                        o \in Prefix(KeycloakOptions, 4)},
     excludeUsers : ExcludeStrings,
     dryRun : BOOLEAN]

Document(table, defaults) ==
    [kind |-> "document", groups |-> table, defaults |-> defaults]

Defaults(unmapped, policies) ==
    [unmappedGroups |-> unmapped, defaultPolicies |-> policies]

\* what the mapping file may hold: nothing readable, an empty document, a
\* document without a groups table, and four documents with one
MappingFiles ==
    {[kind |-> "unreadable", groups |-> Undefined, defaults |-> Undefined],
     [kind |-> "empty", groups |-> Undefined, defaults |-> Undefined],
     Document(Undefined, Some(Defaults(Some("include"), Undefined))),
     Document(Some("admins" :> EntryObject(Some("administrators"), Undefined,
                                           Some(<<"admin-policy">>), Undefined)),
              Some(Defaults(Some("skip"), Undefined))),
     Document(Some(("admins" :> EntryObject(Some("guests"), Undefined,
                                            Undefined, Undefined))
                   @@ ("guests" :> EntryObject(Undefined, Undefined, Undefined,
                                               Some(FALSE)))),
              Undefined),
     Document(Some([n \in {} |-> NullValue]),
              Some(Defaults(Some("include"), Some(<<"default-policy">>)))),
     Document(Some(("admins" :> NullValue)
                   @@ ("guests" :> EntryObject(Undefined, Undefined, Undefined,
                                               Undefined))),
              Some(Defaults(Some("include-no-policies"), Undefined)))}

\* MappingLoader.fromFile: TRUE when it returns a loader, FALSE when it throws
fromFileReturns(file) ==
    /\ file.kind = "document"
    /\ file.groups # Undefined

\* the step runSync takes after `step` when it has not thrown
Advance(step, next) ==
    /\ pc' = next
    /\ steps' = Append(steps, step)
    /\ failure' = failure

\* `step` throws: the action handler reports the error and exits with 1
Abort(step) ==
    /\ pc' = "failed"
    /\ steps' = Append(steps, step)
    /\ failure' = Some(step)

\* a validation that accepts every provider type
anyProvider(provider) == TRUE

\* the provider type runSync accepts
supportedProvider(provider) == provider = "keycloak"

\* runSync: validate the provider type and the Keycloak options
Validate ==
    /\ pc = "validate"
    /\ IF ~supportedProvider(options.provider) THEN Abort("validate")
       ELSE IF \E i \in 1..4 : KeycloakOptions[i] \notin options.given
       THEN Abort("validate")
       ELSE Advance("validate", "load")
    /\ UNCHANGED <<resolverVars, providerVars, options, mappingFile, groups,
                   fetched, filteredUsers, resolvedGroups, groupsYaml,
                   usersYaml, printed, files>>

\* runSync: MappingLoader.fromFile(options.mapping)
LoadMapping ==
    /\ pc = "load"
    /\ \E file \in MappingFiles :
        /\ mappingFile' = Some(file)
        /\ IF fromFileReturns(file)
           THEN /\ mapping' = [groups |-> file.groups, defaults |-> file.defaults]
                /\ mappingLoader' = NewMappingLoader(mapping')
                /\ Advance("load", "connect")
           ELSE /\ UNCHANGED <<mapping, mappingLoader>>
                /\ Abort("load")
    /\ UNCHANGED <<rName, rResult, providerVars, options, groups, fetched,
                   filteredUsers, resolvedGroups, groupsYaml, usersYaml,
                   printed, files>>

\* runSync: new KeycloakProvider(...) and provider.connect()
ConnectProvider ==
    /\ pc = "connect"
    /\ \E authOk \in BOOLEAN :
        /\ connect(authOk)
        /\ IF authOk THEN Advance("connect", "fetchGroups")
           ELSE Abort("connect")
    /\ UNCHANGED <<resolverVars, options, mappingFile, groups, fetched,
                   filteredUsers, resolvedGroups, groupsYaml, usersYaml,
                   printed, files>>

\* runSync: provider.getGroups()
FetchGroups ==
    /\ pc = "fetchGroups"
    /\ \E groupsOk \in BOOLEAN : getGroups(groupsOk)
    /\ IF lastCall'.error = Undefined
       THEN groups' = lastCall'.value /\ Advance("fetchGroups", "fetchUsers")
       ELSE UNCHANGED groups /\ Abort("fetchGroups")
    /\ UNCHANGED <<resolverVars, options, mappingFile, fetched, filteredUsers,
                   resolvedGroups, groupsYaml, usersYaml, printed, files>>

\* runSync: provider.getUsersWithGroups()
FetchUsers ==
    /\ pc = "fetchUsers"
    /\ \E answers \in AggregateAnswers(
                        {{}} \cup {{g} : g \in DOMAIN realm.members}) :
            getUsersWithGroups(answers.usersOk, answers.groupsOk,
                               answers.failed)
    /\ IF lastCall'.error = Undefined
       THEN fetched' = lastCall'.value /\ Advance("fetchUsers", "filter")
       ELSE UNCHANGED fetched /\ Abort("fetchUsers")
    /\ UNCHANGED <<resolverVars, options, mappingFile, groups, filteredUsers,
                   resolvedGroups, groupsYaml, usersYaml, printed, files>>

\* runSync: apply the exclude patterns
FilterUsers ==
    /\ pc = "filter"
    /\ filteredUsers' =
            filterUsers(fetched, ExcludePatterns(options.excludeUsers))
    /\ Advance("filter", "renderGroups")
    /\ UNCHANGED <<resolverVars, providerVars, options, mappingFile, groups,
                   fetched, resolvedGroups, groupsYaml, usersYaml, printed,
                   files>>

\* runSync: generateGroupsYaml(groups, mappingLoader, ...)
RenderGroups ==
    /\ pc = "renderGroups"
    /\ LET generated == generateGroupsYaml(groups, mappingLoader) IN
        /\ groupsYaml' = Some(generated.yaml)
        /\ resolvedGroups' = Some(generated.resolvedGroups)
    /\ Advance("renderGroups", "renderUsers")
    /\ UNCHANGED <<resolverVars, providerVars, options, mappingFile, groups,
                   fetched, filteredUsers, usersYaml, printed, files>>

\* runSync: generateUsersYaml(filteredUsers, resolvedGroups, ...)
RenderUsers ==
    /\ pc = "renderUsers"
    /\ usersYaml' = Some(generateUsersYaml(filteredUsers,
                            CHOOSE m \in resolvedGroups : TRUE))
    /\ Advance("renderUsers", IF options.dryRun THEN "print" ELSE "writeGroups")
    /\ UNCHANGED <<resolverVars, providerVars, options, mappingFile, groups,
                   fetched, filteredUsers, resolvedGroups, groupsYaml, printed,
                   files>>

\* runSync: the dry run prints both documents
PrintDocuments ==
    /\ pc = "print"
    /\ printed' = TRUE
    /\ Advance("print", "done")
    /\ UNCHANGED <<resolverVars, providerVars, options, mappingFile, groups,
                   fetched, filteredUsers, resolvedGroups, groupsYaml,
                   usersYaml, files>>

\* runSync: Bun.write(options.outputGroups, groupsYaml)
WriteGroups ==
    /\ pc = "writeGroups"
    /\ \E written \in BOOLEAN :
        IF written
        THEN /\ files' = [files EXCEPT !.groups = groupsYaml]
             /\ Advance("writeGroups", "writeUsers")
        ELSE /\ UNCHANGED files
             /\ Abort("writeGroups")
    /\ UNCHANGED <<resolverVars, providerVars, options, mappingFile, groups,
                   fetched, filteredUsers, resolvedGroups, groupsYaml,
                   usersYaml, printed>>

\* runSync: Bun.write(options.outputUsers, usersYaml)
WriteUsers ==
    /\ pc = "writeUsers"
    /\ \E written \in BOOLEAN :
        IF written
        THEN /\ files' = [files EXCEPT !.users = usersYaml]
             /\ Advance("writeUsers", "done")
        ELSE /\ UNCHANGED files
             /\ Abort("writeUsers")
    /\ UNCHANGED <<resolverVars, providerVars, options, mappingFile, groups,
                   fetched, filteredUsers, resolvedGroups, groupsYaml,
                   usersYaml, printed>>

\* the identity provider's administrators create a group between the two
\* fetches of the group listing
RealmGroupCreated ==
    /\ pc = "fetchUsers"
    /\ Len(realm.groups) < GroupCount
    /\ Len(realm.groups) = Len(groups)
    /\ \E name \in RealmGroupNames, members \in MemberLists :
        LET id == GroupIdUniverse[Len(realm.groups) + 1] IN
        realm' = [realm EXCEPT
                    !.groups = Append(@, GroupNode(id, name, <<>>)),
                    !.members = @ @@ (id :> members)]
    /\ UNCHANGED <<resolverVars, connected, authorized, refused, lastCall,
                   syncVars>>

\* the realms a sync run meets: the groups all at the top level
SyncRealms ==
    {r \in Realms : \A i \in 1..Len(r.groups) : r.groups[i].subGroups = <<>>}

SyncInit ==
    /\ pc = "validate"
    /\ options \in SyncOptions
    /\ SyncLocalsUnset
    /\ realm \in SyncRealms
    /\ NewKeycloakProvider
    /\ ResolverIdle

SyncNext ==
    \/ Validate
    \/ LoadMapping
    \/ ConnectProvider
    \/ FetchGroups
    \/ FetchUsers
    \/ FilterUsers
    \/ RenderGroups
    \/ RenderUsers
    \/ PrintDocuments
    \/ WriteGroups
    \/ WriteUsers
    \/ RealmGroupCreated

SpecSync == SyncInit /\ [][SyncNext]_vars

(***************************************************************************)
(* Properties of the resolver (SpecResolver).                              *)
(***************************************************************************)
Range(s) == {s[i] : i \in 1..Len(s)}

\* the groups table of the mapping document under test
Table == CHOOSE t \in mapping.groups : TRUE

\* the unmapped-groups policy is "skip", by the document or by default
SkipsUnmapped ==
    DefaultsField(mapping, "unmappedGroups") \in {Undefined, Some("skip")}

\* C2: resolveGroup(G) returns null whenever the table's entry for G sets
\* sync to false, whatever the entry's other fields and the defaults are.
C2_SyncFalseIsAbsent ==
    \A g \in rName :
        (g \in DOMAIN Table /\ Table[g].sync = Some(FALSE)) => rResult = Null

\* C2 witness: a call for a key whose entry sets sync: false and a target
\* name, under defaults that include unmapped groups.
C2_Witness ==
    \E g \in rName :
        /\ g \in DOMAIN Table
        /\ Table[g].sync = Some(FALSE)
        /\ Table[g].octeliumGroup = Some("administrators")
        /\ DefaultsField(mapping, "unmappedGroups") = Some("include")
        /\ rResult = Null

\* C3: resolveGroup(G) returns null for every G that is not a key of the
\* groups table when unmappedGroups is "skip" or omitted, names inherited from
\* Object.prototype included.
C3_UnmappedIsAbsentUnderSkip ==
    \A g \in rName :
        (g \notin DOMAIN Table /\ SkipsUnmapped) => rResult = Null

\* C4: for every key G of the groups table whose sync flag is true or unset,
\* an entry without fields (empty or null) included, resolveGroup(G) returns
\* the entry's target name, display name and policies, each defaulted, and
\* sync = true.
C4_ConfiguredIsResolved ==
    \A g \in rName :
        (g \in DOMAIN Table /\ Table[g].sync # Some(FALSE)) =>
            rResult =
                ResolvedGroupMapping(
                    OrElse(Table[g].octeliumGroup, g),
                    OrElse(Table[g].displayName, g),
                    OrElse(Table[g].policies,
                           OrElse(DefaultsField(mapping, "defaultPolicies"),
                                  <<>>)),
                    TRUE)

\* C5: every ResolvedGroup that resolveGroup returns has a non-empty target
\* name.
C5_TargetNameNonEmpty ==
    (rName # Undefined /\ rResult # Null) => rResult.octeliumGroup # ""

(***************************************************************************)
(* Properties of the provider (SpecProvider).                              *)
(***************************************************************************)
\* the last call was getUsersWithGroups on a connected provider
AggregateCalled ==
    /\ lastCall.op = "getUsersWithGroups"
    /\ lastCall.error # Some(NotConnected)

\* the groups of the realm as the lookup walks them
RealmGroups == flattenGroups(realm.groups, <<>>)

\* the lookup fails iff the user listing or the group listing fails, and
\* otherwise returns the listed users once each, in listing order
AggregateKeepsUsers ==
    AggregateCalled =>
        /\ (lastCall.error # Undefined) <=>
                (~lastCall.answers.usersOk \/ ~lastCall.answers.groupsOk)
        /\ lastCall.error = Undefined =>
            /\ Len(lastCall.value) = Len(realm.users)
            /\ \A i \in 1..Len(realm.users) :
                    lastCall.value[i].id = realm.users[i].id

\* C8 as stated: the failed group's name is in no user's list, and every
\* other group's name is in a user's list iff the user is among its members.
C8_FailedGroupNameAbsent ==
    /\ AggregateKeepsUsers
    /\ (AggregateCalled /\ lastCall.error = Undefined) =>
        \A k \in 1..Len(RealmGroups), i \in 1..Len(lastCall.value) :
            LET g == RealmGroups[k]
                user == lastCall.value[i]
            IN IF g.id \in lastCall.answers.failed
               THEN g.name \notin Range(user.groups)
               ELSE g.name \in Range(user.groups)
                        <=> user.id \in realm.members[g.id]

\* C8, amended: a failed member listing does not abort the lookup; each
\* returned user's list holds, in group order, the name of every group whose
\* member listing succeeded and contains the user's id, and nothing else.
C8_FailedGroupContributesNothing ==
    /\ AggregateKeepsUsers
    /\ (AggregateCalled /\ lastCall.error = Undefined) =>
        \A i \in 1..Len(lastCall.value) :
            LET user == lastCall.value[i]
                joined == SelectSeq(RealmGroups, LAMBDA g :
                            /\ g.id \notin lastCall.answers.failed
                            /\ user.id \in realm.members[g.id])
            IN user.groups = [k \in 1..Len(joined) |-> joined[k].name]

\* C8 witness: the lookup returned two users although the first group's
\* member listing failed, and a later group put its name in a user's list.
C8_Witness ==
    /\ AggregateCalled
    /\ lastCall.error = Undefined
    /\ Len(lastCall.value) = 2
    /\ Len(RealmGroups) = 2
    /\ lastCall.answers.failed = {RealmGroups[1].id}
    /\ realm.members[RealmGroups[1].id] # {}
    /\ lastCall.value[1].groups = <<RealmGroups[2].name>>

FetchOps == {"getUsers", "getGroups", "getGroupMembers", "getUsersWithGroups"}

\* C10: a fetch method sends a request only after some connect() has
\* succeeded; until then it throws "Not connected" without a request, and a
\* failed connect() leaves the connected flag as it was.
C10_ConnectionGuard ==
    /\ connected <=> authorized
    /\ lastCall.op \in FetchOps =>
        /\ lastCall.sent > 0 => authorized
        /\ ~authorized =>
            /\ lastCall.error = Some(NotConnected)
            /\ lastCall.sent = 0

\* C10 witness: connect() has failed, none has succeeded, and a fetch threw
\* "Not connected".
C10_Witness ==
    /\ refused
    /\ ~authorized
    /\ lastCall.op = "getUsersWithGroups"
    /\ lastCall.error = Some(NotConnected)

(***************************************************************************)
(* Properties of the sync run (SpecSync).                                  *)
(***************************************************************************)
\* the resolver skips this raw group name: sync: false, or not configured and
\* not included by the defaults
Skips(name) ==
    LET entry == Lookup(mappingLoader.groups, name) IN
    IF Truthy(entry) THEN entry.sync = Some(FALSE)
    ELSE mappingLoader.defaults.unmappedGroups
            \notin {"include", "include-no-policies"}

FetchedGroupNames == {groups[k].name : k \in 1..Len(groups)}

\* every group name of every rendered user names an entry of the groups
\* document
ReferentialIntegrity ==
    usersYaml # Undefined =>
        LET users == CHOOSE d \in usersYaml : TRUE
            targets == CHOOSE d \in groupsYaml : TRUE
        IN \A i \in 1..Len(users) :
                \A name \in Range(users[i].groups) :
                    \E k \in 1..Len(targets) : targets[k].name = name

\* C1 as stated: referential integrity, and no raw group name that was
\* skipped or is absent from resolvedGroups appears in a user's group list.
C1_NoSkippedNameAppears ==
    /\ ReferentialIntegrity
    /\ usersYaml # Undefined =>
        LET users == CHOOSE d \in usersYaml : TRUE
            resolved == CHOOSE m \in resolvedGroups : TRUE
            rawNames == FetchedGroupNames
                \cup UNION {Range(fetched[i].groups) : i \in 1..Len(fetched)}
        IN \A i \in 1..Len(users), name \in rawNames :
                (Skips(name) \/ name \notin DOMAIN resolved) =>
                    name \notin Range(users[i].groups)

\* C1, amended: referential integrity, and a raw group name that was skipped
\* or is absent from resolvedGroups contributes no entry: a user's rendered
\* list is the target names of the user's raw groups that were fetched in
\* the group listing and not skipped, in order.
C1_NoSkippedGroupContributes ==
    /\ ReferentialIntegrity
    /\ usersYaml # Undefined =>
        LET users == CHOOSE d \in usersYaml : TRUE IN
        /\ Len(users) = Len(filteredUsers)
        /\ \A i \in 1..Len(users) :
            LET kept == SelectSeq(filteredUsers[i].groups, LAMBDA name :
                            name \in FetchedGroupNames /\ ~Skips(name))
            IN users[i].groups =
                [k \in 1..Len(kept) |->
                    OrElse(Lookup(mappingLoader.groups, kept[k]).octeliumGroup,
                           kept[k])]

\* C1 witness: a rendered user keeps one group and loses another, one that
\* the resolver skipped.
C1_Witness ==
    /\ usersYaml # Undefined
    /\ \E i \in 1..Len(filteredUsers) :
        LET users == CHOOSE d \in usersYaml : TRUE IN
        /\ Len(users[i].groups) = 1
        /\ Len(filteredUsers[i].groups) = 2
        /\ \E name \in Range(filteredUsers[i].groups) :
                name \in FetchedGroupNames /\ Skips(name)

\* C6: a run that ends in an error has written neither output file.
C6_NoOutputOnFailure ==
    pc = "failed" => files.groups = Undefined /\ files.users = Undefined

StepOrder ==
    <<"validate", "load", "connect", "fetchGroups", "fetchUsers", "filter",
      "renderGroups", "renderUsers">>

OutputSteps(dryRun) ==
    IF dryRun THEN <<"print">> ELSE <<"writeGroups", "writeUsers">>

\* no method of the provider has been called
NoProviderCall == lastCall = NoCall /\ ~authorized /\ ~refused

\* C7: the steps run in the one order, none after a failed one; an
\* unsupported provider type or a mapping document without a groups table
\* ends the run before any provider call, and a failed connect or fetch ends
\* it before anything is rendered or written.
C7_StepsInOrder ==
    /\ steps = SubSeq(StepOrder \o OutputSteps(options.dryRun), 1, Len(steps))
    /\ failure # Undefined =>
        /\ pc = "failed"
        /\ failure = Some(steps[Len(steps)])
    /\ (options.provider # "keycloak" /\ steps # <<>>) =>
        /\ failure = Some("validate")
        /\ NoProviderCall
    /\ (\E file \in mappingFile : file.groups = Undefined) =>
        /\ failure = Some("load")
        /\ NoProviderCall
    /\ failure \in {Some("connect"), Some("fetchGroups"), Some("fetchUsers")} =>
        /\ groupsYaml = Undefined
        /\ usersYaml = Undefined
        /\ ~printed
        /\ files = NoFiles

\* C7 witness: the user fetch failed after the four steps before it, and
\* the run ended there.
C7_Witness ==
    /\ failure = Some("fetchUsers")
    /\ steps = SubSeq(StepOrder, 1, 5)
    /\ pc = "failed"

=============================================================================
